---- MODULE Spec2Model ----
(***************************************************************************)
(* Canadian mortgage payment library (src/src/lib.rs).                     *)
(*                                                                         *)
(* The library computes with rust_decimal::Decimal: a sign, a 96-bit       *)
(* mantissa and a scale of 0..28 decimal places.  The mantissas do not fit *)
(* a machine integer of the model checker, so a mantissa is a sequence of  *)
(* base-10^4 limbs, least significant first, without leading zero limbs    *)
(* (the empty sequence is 0), and the arithmetic below is carried out on   *)
(* these sequences with the widths and the rounding of the Decimal type.   *)
(*                                                                         *)
(* A loop of n steps is a recursive operator XLoop(st, n): it runs the     *)
(* first half of the steps, then the second half on the state the first    *)
(* half left, so that a long loop nests only log n deep.  The state st is  *)
(* a record that also carries the values the loop only reads.              *)
(***************************************************************************)
EXTENDS Integers, Sequences, FiniteSets, TLC

(***************************************************************************)
(* Natural numbers of arbitrary size.                                      *)
(***************************************************************************)
Base == 10^4

Max(x, y) == IF x >= y THEN x ELSE y

Min(x, y) == IF x <= y THEN x ELSE y

Zeros(k) == [i \in 1..k |-> 0]

SetMax(S) == CHOOSE x \in S : \A y \in S : y <= x

\* a without its leading (most significant) zero limbs.
Trim(a) ==
  LET nz == {i \in 1..Len(a) : a[i] /= 0}
  IN  IF nz = {} THEN <<>> ELSE SubSeq(a, 1, SetMax(nz))

Limb(a, i) == IF i <= Len(a) THEN a[i] ELSE 0

\* A machine-size natural as limbs.
RECURSIVE FromInt(_)
FromInt(n) == IF n = 0 THEN <<>> ELSE <<n % Base>> \o FromInt(n \div Base)

\* The limbs of a number below 2^31 as a machine-size natural.
RECURSIVE ToInt(_)
ToInt(a) == IF a = <<>> THEN 0 ELSE a[1] + Base * ToInt(Tail(a))

BAddStep(st) ==
  LET t == Limb(st.a, Len(st.r) + 1) + Limb(st.b, Len(st.r) + 1) + st.c
  IN  [st EXCEPT !.r = Append(st.r, t % Base), !.c = t \div Base]

RECURSIVE BAddLoop(_, _)
BAddLoop(st, n) ==
  IF n <= 0 THEN st
  ELSE IF n = 1 THEN BAddStep(st)
  ELSE LET h == BAddLoop(st, n \div 2)
       IN  IF h = h THEN BAddLoop(h, n - (n \div 2)) ELSE h

BAdd(a, b) ==
  LET Carry(fin) == IF fin.c = 0 THEN fin.r ELSE Append(fin.r, fin.c)
  IN  Carry(BAddLoop([a |-> a, b |-> b, r |-> <<>>, c |-> 0],
                    Max(Len(a), Len(b))))

BSubStep(st) ==
  LET t == st.a[Len(st.r) + 1] - Limb(st.b, Len(st.r) + 1) - st.c
  IN  IF t < 0 THEN [st EXCEPT !.r = Append(st.r, t + Base), !.c = 1]
               ELSE [st EXCEPT !.r = Append(st.r, t), !.c = 0]

RECURSIVE BSubLoop(_, _)
BSubLoop(st, n) ==
  IF n <= 0 THEN st
  ELSE IF n = 1 THEN BSubStep(st)
  ELSE LET h == BSubLoop(st, n \div 2)
       IN  IF h = h THEN BSubLoop(h, n - (n \div 2)) ELSE h

\* a - b, for a >= b.
BSub(a, b) ==
  Trim(BSubLoop([a |-> a, b |-> b, r |-> <<>>, c |-> 0], Len(a)).r)

\* -1, 0 or 1 as a < b, a = b or a > b.
BCmp(a, b) ==
  IF Len(a) < Len(b) THEN -1
  ELSE IF Len(a) > Len(b) THEN 1
  ELSE LET diff == {i \in 1..Len(a) : a[i] /= b[i]}
       IN  IF diff = {} THEN 0
           ELSE IF a[SetMax(diff)] < b[SetMax(diff)] THEN -1 ELSE 1

BLe(a, b) == BCmp(a, b) <= 0

BLt(a, b) == BCmp(a, b) < 0

BMulSmallStep(st) ==
  LET t == st.a[Len(st.r) + 1] * st.by + st.c
  IN  [st EXCEPT !.r = Append(st.r, t % Base), !.c = t \div Base]

RECURSIVE BMulSmallLoop(_, _)
BMulSmallLoop(st, n) ==
  IF n <= 0 THEN st
  ELSE IF n = 1 THEN BMulSmallStep(st)
  ELSE LET h == BMulSmallLoop(st, n \div 2)
       IN  IF h = h THEN BMulSmallLoop(h, n - (n \div 2)) ELSE h

\* a * c for a machine-size c of at most 2 * 10^5.
BMulSmall(a, c) ==
  LET Carry(fin) == fin.r \o FromInt(fin.c)
  IN  IF c = 0 \/ a = <<>> THEN <<>>
      ELSE Carry(BMulSmallLoop([a |-> a, by |-> c, r |-> <<>>, c |-> 0], Len(a)))

BDivSmallStep(st) ==
  LET cur == st.r * Base + st.a[Len(st.a) - Len(st.q)]
  IN  [st EXCEPT !.q = <<cur \div st.by>> \o st.q, !.r = cur % st.by]

RECURSIVE BDivSmallLoop(_, _)
BDivSmallLoop(st, n) ==
  IF n <= 0 THEN st
  ELSE IF n = 1 THEN BDivSmallStep(st)
  ELSE LET h == BDivSmallLoop(st, n \div 2)
       IN  IF h = h THEN BDivSmallLoop(h, n - (n \div 2)) ELSE h

\* Quotient (limbs) and remainder (machine-size) of a by a machine-size c
\* of at most 2 * 10^5.
BDivSmall(a, c) ==
  LET Out(fin) == [q |-> Trim(fin.q), r |-> fin.r]
  IN  Out(BDivSmallLoop([a |-> a, by |-> c, q |-> <<>>, r |-> 0], Len(a)))

ShiftLimbs(a, k) == IF a = <<>> THEN <<>> ELSE Zeros(k) \o a

BMulStep(st) ==
  [st EXCEPT !.i = st.i - 1,
             !.acc = BAdd(BMulSmall(st.b, st.a[st.i]), ShiftLimbs(st.acc, 1))]

RECURSIVE BMulLoop(_, _)
BMulLoop(st, n) ==
  IF n <= 0 THEN st
  ELSE IF n = 1 THEN BMulStep(st)
  ELSE LET h == BMulLoop(st, n \div 2)
       IN  IF h = h THEN BMulLoop(h, n - (n \div 2)) ELSE h

BMul(a, b) ==
  IF a = <<>> \/ b = <<>> THEN <<>>
  ELSE BMulLoop([a |-> a, b |-> b, i |-> Len(a), acc |-> <<>>], Len(a)).acc

QuotDigitStep(st) ==
  LET mid == (st.lo + st.hi + 1) \div 2
  IN  IF st.lo = st.hi THEN st
      ELSE IF BLe(BMulSmall(st.b, mid), st.rem) THEN [st EXCEPT !.lo = mid]
      ELSE [st EXCEPT !.hi = mid - 1]

RECURSIVE QuotDigitLoop(_, _)
QuotDigitLoop(st, n) ==
  IF n <= 0 THEN st
  ELSE IF n = 1 THEN QuotDigitStep(st)
  ELSE LET h == QuotDigitLoop(st, n \div 2)
       IN  IF h = h THEN QuotDigitLoop(h, n - (n \div 2)) ELSE h

\* The largest d in 0..Base-1 with d * b <= rem, by bisection.
QuotDigit(rem, b) ==
  QuotDigitLoop([rem |-> rem, b |-> b, lo |-> 0, hi |-> Base - 1], 14).lo

BDivModStep(st) ==
  LET Digit(cur, d) == [st EXCEPT !.q = <<d>> \o st.q, !.r = BSub(cur, BMulSmall(st.b, d))]
      Bring(cur)    == Digit(cur, QuotDigit(cur, st.b))
  IN  Bring(Trim(<<st.a[Len(st.a) - Len(st.q)]>> \o st.r))

RECURSIVE BDivModLoop(_, _)
BDivModLoop(st, n) ==
  IF n <= 0 THEN st
  ELSE IF n = 1 THEN BDivModStep(st)
  ELSE LET h == BDivModLoop(st, n \div 2)
       IN  IF h = h THEN BDivModLoop(h, n - (n \div 2)) ELSE h

\* Quotient and remainder of a by b, b > 0 (long division, a limb at a time).
BDivMod(a, b) ==
  LET Out(fin) == [q |-> Trim(fin.q), r |-> fin.r]
  IN  Out(BDivModLoop([a |-> a, b |-> b, q |-> <<>>, r |-> <<>>], Len(a)))

\* 10^k.
Pow10(k) == Zeros(k \div 4) \o <<10^(k % 4)>>

BMulPow10(a, k) == BMulSmall(ShiftLimbs(a, k \div 4), 10^(k % 4))

\* Quotient of a by 10^k.
BDivPow10(a, k) ==
  IF k \div 4 >= Len(a) THEN <<>>
  ELSE BDivSmall(SubSeq(a, (k \div 4) + 1, Len(a)), 10^(k % 4)).q

BIsOdd(a) == a /= <<>> /\ a[1] % 2 = 1

\* Number of decimal digits of a (0 for 0).
NumDigits(a) ==
  IF a = <<>> THEN 0
  ELSE LET t == a[Len(a)]
       IN  4 * (Len(a) - 1)
             + (IF t >= 1000 THEN 4 ELSE IF t >= 100 THEN 3 ELSE IF t >= 10 THEN 2 ELSE 1)

\* a / 10^k rounded to the nearest integer, a tie to the even one; sticky
\* says that a stands for a value slightly above it (a nonzero remainder was
\* cut off before).
RoundHalfEven(a, k, sticky) ==
  LET Up(q, half) == k /= 0 /\ (half > 0 \/ (half = 0 /\ (sticky \/ BIsOdd(q))))
      Round(q)    == IF Up(q, BCmp(BMulSmall(BSub(a, BMulPow10(q, k)), 2), Pow10(k)))
                     THEN BAdd(q, <<1>>) ELSE q
  IN  Round(BDivPow10(a, k))

Times8192(a) == BMulSmall(a, 2^13)

RECURSIVE Times8192Loop(_, _)
Times8192Loop(st, n) ==
  IF n <= 0 THEN st
  ELSE IF n = 1 THEN Times8192(st)
  ELSE LET h == Times8192Loop(st, n \div 2)
       IN  IF h = h THEN Times8192Loop(h, n - (n \div 2)) ELSE h

\* 2^k.
Pow2(k) == Times8192Loop(FromInt(2^(k % 13)), k \div 13)

BitLenStep(st) == IF BLe(Pow2(st.g + 1), st.a) THEN [st EXCEPT !.g = st.g + 1] ELSE st

RECURSIVE BitLenLoop(_, _)
BitLenLoop(st, n) ==
  IF n <= 0 THEN st
  ELSE IF n = 1 THEN BitLenStep(st)
  ELSE LET h == BitLenLoop(st, n \div 2)
       IN  IF h = h THEN BitLenLoop(h, n - (n \div 2)) ELSE h

\* Number of bits of a, a > 0: the L with 2^(L-1) <= a < 2^L.
BitLen(a) ==
  BitLenLoop([a |-> a, g |-> ((NumDigits(a) - 1) * 3321) \div 1000], 4).g + 1

(***************************************************************************)
(* rust_decimal::Decimal.  A value is a record: neg (the sign), m (the     *)
(* mantissa, below 2^96), s (the scale: the value is m / 10^s), and panic: *)
(* the message of the panic that the operator producing the value raised   *)
(* ("" for a value).  The arithmetic operators of the type panic on        *)
(* overflow and on a zero divisor; an operand that is a panic is passed    *)
(* on, as the unwinding of the expression does.                            *)
(***************************************************************************)
MAX_PRECISION == 28

\* The largest mantissa: 2^96 - 1 = 79228162514264337593543950335.
MaxMantissa == BSub(Pow2(96), <<1>>)

Dec(neg, m, s) == [panic |-> "", neg |-> neg /\ m /= <<>>, m |-> m, s |-> s]

Panic(msg) == [panic |-> msg, neg |-> FALSE, m |-> <<>>, s |-> 0]

IsPanic(d) == d.panic /= ""

DecZero == Dec(FALSE, <<>>, 0)

\* The literal (-)n / 10^s, for a machine-size n.
DecLit(neg, n, s) == Dec(neg, FromInt(n), s)

DecIsZero(d) == d.m = <<>>

\* The value p / 10^scale (plus a cut-off remainder when sticky) brought to
\* a mantissa below 2^96 and a scale of at most MAX_PRECISION, dropping as
\* few digits as that takes and rounding half to even; a panic with msg
\* when the integer part alone does not fit.
FitScale(neg, p, scale, sticky, msg) ==
  LET Result(k, q) == IF k > scale THEN Panic(msg) ELSE Dec(neg, q, scale - k)
      Fit(k0, q0)  == IF BLe(q0, MaxMantissa) THEN Result(k0, q0)
                      ELSE Result(k0 + 1, RoundHalfEven(p, k0 + 1, sticky))
      Cut(k0)      == Fit(k0, RoundHalfEven(p, k0, sticky))
  IN  Cut(Max(0, Max(scale - MAX_PRECISION, NumDigits(p) - 29)))

\* -1, 0, 1: the order of the magnitudes |a| and |b|.
MagCmp(a, b) ==
  LET s == Max(a.s, b.s)
  IN  BCmp(BMulPow10(a.m, s - a.s), BMulPow10(b.m, s - b.s))

\* -1, 0, 1: the order of a and b (Decimal's Ord and PartialEq compare the
\* values, not the representations: 1.0 = 1.00).
DecCmp(a, b) ==
  IF a.neg /= b.neg THEN (IF a.neg THEN -1 ELSE 1)
  ELSE IF a.neg THEN 0 - MagCmp(a, b) ELSE MagCmp(a, b)

DecEq(a, b) == ~IsPanic(a) /\ ~IsPanic(b) /\ DecCmp(a, b) = 0

DecLt(a, b) == DecCmp(a, b) < 0

DecGt(a, b) == DecCmp(a, b) > 0

DecNeg(a) == IF IsPanic(a) THEN a ELSE Dec(~a.neg, a.m, a.s)

DecAbs(a) == IF IsPanic(a) THEN a ELSE Dec(FALSE, a.m, a.s)

\* a + b, with the panic message msg on overflow.
DecSum(a, b, msg) ==
  LET Fit(sum)    == FitScale(sum.neg, sum.m, Max(a.s, b.s), FALSE, msg)
      Sum(am, bm) == IF a.neg = b.neg THEN [neg |-> a.neg, m |-> BAdd(am, bm)]
                     ELSE IF BLe(bm, am) THEN [neg |-> a.neg, m |-> BSub(am, bm)]
                     ELSE [neg |-> b.neg, m |-> BSub(bm, am)]
  IN  IF IsPanic(a) THEN a
      ELSE IF IsPanic(b) THEN b
      ELSE Fit(Sum(BMulPow10(a.m, Max(a.s, b.s) - a.s), BMulPow10(b.m, Max(a.s, b.s) - b.s)))

\* impl Add for Decimal.
DecAdd(a, b) == DecSum(a, b, "Addition overflowed")

\* impl Sub for Decimal.
DecSub(a, b) == DecSum(a, DecNeg(b), "Subtraction overflowed")

\* impl Mul for Decimal: the exact product, rounded to what the type holds.
DecMul(a, b) ==
  IF IsPanic(a) THEN a
  ELSE IF IsPanic(b) THEN b
  ELSE IF DecIsZero(a) \/ DecIsZero(b) THEN DecZero
  ELSE FitScale(a.neg /= b.neg, BMul(a.m, b.m), a.s + b.s, FALSE,
                "Multiplication overflowed")

StripZerosStep(st) ==
  LET Drop(dv) == IF st.d.s > st.lo /\ st.d.m /= <<>> /\ dv.r = 0
                  THEN [st EXCEPT !.d.m = dv.q, !.d.s = st.d.s - 1] ELSE st
  IN  Drop(BDivSmall(st.d.m, 10))

RECURSIVE StripZerosLoop(_, _)
StripZerosLoop(st, n) ==
  IF n <= 0 THEN st
  ELSE IF n = 1 THEN StripZerosStep(st)
  ELSE LET h == StripZerosLoop(st, n \div 2)
       IN  IF h = h THEN StripZerosLoop(h, n - (n \div 2)) ELSE h

\* d without the trailing zeros of its mantissa, down to the scale lo.
StripZeros(d, lo) == StripZerosLoop([d |-> d, lo |-> lo], d.s - lo).d

\* impl Div for Decimal: the quotient to as many places as the type holds
\* (at most MAX_PRECISION), rounded half to even; an exact quotient keeps no
\* more places than it needs.
DecDiv(a, b) ==
  LET Exact(q)     == IF IsPanic(q) THEN q ELSE StripZeros(q, Max(a.s - b.s, 0))
      Quotient(dm) == IF dm.r /= <<>>
                      THEN FitScale(a.neg /= b.neg, dm.q, MAX_PRECISION + 1, TRUE,
                                    "Division overflowed")
                      ELSE Exact(FitScale(a.neg /= b.neg, dm.q, MAX_PRECISION + 1, FALSE,
                                          "Division overflowed"))
  IN  IF IsPanic(a) THEN a
      ELSE IF IsPanic(b) THEN b
      ELSE IF DecIsZero(b) THEN Panic("Division by zero")
      ELSE IF DecIsZero(a) THEN DecZero
      ELSE Quotient(BDivMod(BMulPow10(a.m, MAX_PRECISION + 1 + b.s - a.s), b.m))

powiStep(st) == [st EXCEPT !.product = DecMul(st.product, st.squared)]

RECURSIVE powiLoop(_, _)
powiLoop(st, n) ==
  IF n <= 0 THEN st
  ELSE IF n = 1 THEN powiStep(st)
  ELSE LET h == powiLoop(st, n \div 2)
       IN  IF h = h THEN powiLoop(h, n - (n \div 2)) ELSE h

\* Decimal::powi(exp: u64): 1 for exp = 0, self for 1, self * self for 2,
\* and else the product of exp / 2 copies of the square, times self for an
\* odd exp, multiplied up one after the other.
powi(x, exp) ==
  LET Odd(product)  == IF exp % 2 > 0 THEN DecMul(product, x) ELSE product
      Pow(squared)  == IF exp = 2 THEN squared
                       ELSE Odd(powiLoop(
                                        [squared |-> squared, product |-> DecLit(FALSE, 1, 0)],
                                        exp \div 2).product)
  IN  IF exp = 0 THEN DecLit(FALSE, 1, 0)
      ELSE IF exp = 1 THEN x
      ELSE Pow(DecMul(x, x))

\* The formula without the growth factor in the numerator,
\* p * r / ((1 + r)^n - 1): the identity of C8 tells it from the formula.
mortgage_payment_without_growth(p, r, n) ==
  LET one == DecLit(FALSE, 10, 1)
  IN  DecDiv(DecMul(p, r), DecSub(powi(DecAdd(one, r), n), one))

\* fn mortgage_payment(p, r, n): a = p * r * (1 + r)^n / ((1 + r)^n - 1).
mortgage_payment(p, r, n) ==
  LET one == DecLit(FALSE, 10, 1)
  IN  DecDiv(DecMul(DecMul(p, r), powi(DecAdd(one, r), n)),
             DecSub(powi(DecAdd(one, r), n), one))

(***************************************************************************)
(* f64.  A float is a record: cls ("num", "zero", "nan" or "inf"), neg,    *)
(* and for a number the significand m and the exponent e: the value is     *)
(* m * 2^e, with 2^52 <= m < 2^53, or for a subnormal 0 < m < 2^52 and     *)
(* e = -1074.  to_f64 rounds to the nearest float, a tie to the even       *)
(* significand (IEEE 754).  powf is the pow of the platform's libm, whose  *)
(* precision the standard library leaves unspecified: it returns one of    *)
(* the two floats next to the power, not always the nearer one.  Which one *)
(* is the argument pow_up of powf and of the functions that call it: the   *)
(* float above the power (TRUE) or the float below (FALSE).                *)
(***************************************************************************)
F64Num(neg, m, e) == [cls |-> "num", neg |-> neg, m |-> m, e |-> e]

F64Zero == [cls |-> "zero", neg |-> FALSE, m |-> <<>>, e |-> 0]

F64NaN == [cls |-> "nan", neg |-> FALSE, m |-> <<>>, e |-> 0]

F64Inf == [cls |-> "inf", neg |-> FALSE, m |-> <<>>, e |-> 0]

\* The float nearest num / den * 2^e0, for num, den > 0.
F64Round(neg, num, den, e0) ==
  LET Float(m, sh)     == IF m = Pow2(53) THEN F64Num(neg, Pow2(52), e0 + sh - 150 + 1)
                          ELSE F64Num(neg, m, e0 + sh - 150)
      Up(dm, dm2, half) == half > 0 \/ (half = 0 /\ (dm.r /= <<>> \/ BIsOdd(dm2.q)))
      Round(dm, sh, dm2) ==
        IF Up(dm, dm2, BCmp(BMulSmall(dm2.r, 2), Pow2(sh)))
        THEN Float(BAdd(dm2.q, <<1>>), sh) ELSE Float(dm2.q, sh)
      Cut(dm, sh)      == Round(dm, sh, BDivMod(dm.q, Pow2(sh)))
      Scaled(dm)       == Cut(dm, BitLen(dm.q) - 53)
  IN  Scaled(BDivMod(BMul(num, Pow2(150)), den))

\* Decimal::to_f64: the float nearest the decimal value.  Every Decimal is
\* within the range of f64, so the conversion always yields Some.
ToF64(d) ==
  IF DecIsZero(d) THEN F64Zero ELSE F64Round(d.neg, d.m, Pow10(d.s), 0)

(***************************************************************************)
(* powf is evaluated as exp(y * ln x) in fixed point with p decimal places *)
(* (a magnitude is a natural number of units of 10^-p).  p is 32, twice    *)
(* the precision of the 53-bit result, and 4 more for every 4 digits of    *)
(* the integer part of the exponent, so that y * ln x keeps 32 places.     *)
(* From 10^20 on the exponent takes every x but 1 out of the range of f64, *)
(* and p stays at 56.                                                      *)
(***************************************************************************)
MaxFixDigits == 14 * 4

FixDigits(y) ==
  LET Whole == IF y.e >= 0 THEN BMul(y.m, Pow2(y.e))
               ELSE BDivMod(y.m, Pow2(0 - y.e)).q
  IN  4 * (8 + Min(Len(Whole), 6))

FixOne(p) == Pow10(p)

\* ln 2 = 0.69314718055994530941723212145817656807550013436025525412 (56
\* places), cut to p places.
Ln2(p) ==
  BDivPow10(<<5412, 2552, 4360, 13, 755, 6568, 5817, 1214, 7232, 941, 9453,
              559, 4718, 6931>>, MaxFixDigits - p)

\* The product of two fixed-point magnitudes, cut to p places.
FixMul(a, b, p) == BDivPow10(BMul(a, b), p)

LnSignificandStep(st) ==
  IF st.term = <<>> THEN st
  ELSE [st EXCEPT !.term  = FixMul(st.term, st.z2, st.p),
                  !.total = BAdd(st.total, BDivSmall(st.term, 2 * st.k + 1).q),
                  !.k     = st.k + 1]

RECURSIVE LnSignificandLoop(_, _)
LnSignificandLoop(st, n) ==
  IF n <= 0 THEN st
  ELSE IF n = 1 THEN LnSignificandStep(st)
  ELSE LET h == LnSignificandLoop(st, n \div 2)
       IN  IF h = h THEN LnSignificandLoop(h, n - (n \div 2)) ELSE h

\* ln(m / 2^52) for 2^52 <= m < 2^53, a magnitude: 2 * atanh(z) with
\* z = (m - 2^52) / (m + 2^52), summed until the terms vanish.
LnSignificand(m, p) ==
  LET Series(z) == LnSignificandLoop(
                           [z2 |-> FixMul(z, z, p), term |-> z, total |-> <<>>,
                            k |-> 0, p |-> p],
                           64).total
  IN  BMulSmall(Series(BDivMod(BMulPow10(BSub(m, Pow2(52)), p),
                               BAdd(m, Pow2(52))).q), 2)

\* A signed fixed-point number: the sum of the signed magnitudes a and b.
SignedSum(aneg, a, bneg, b) ==
  IF aneg = bneg THEN [neg |-> aneg, mag |-> BAdd(a, b)]
  ELSE IF BLe(b, a) THEN [neg |-> aneg, mag |-> BSub(a, b)]
  ELSE [neg |-> bneg, mag |-> BSub(b, a)]

\* The number x with its significand brought to 2^52 <= m < 2^53 (a
\* subnormal has a smaller one).
F64Normal(x) ==
  LET Shifted(sh) == [x EXCEPT !.m = BMul(x.m, Pow2(sh)), !.e = x.e - sh]
  IN  IF BLe(Pow2(52), x.m) THEN x ELSE Shifted(53 - BitLen(x.m))

\* ln x for the float x > 0: ln(m / 2^52) + (e + 52) * ln 2.
LnF64(x, p) ==
  LET Sum(m, k) == SignedSum(FALSE, LnSignificand(m, p), k < 0,
                             BMulSmall(Ln2(p), IF k < 0 THEN 0 - k ELSE k))
      Normal(n) == Sum(n.m, n.e + 52)
  IN  Normal(F64Normal(x))

ExpReducedStep(st) ==
  IF st.term = <<>> THEN st
  ELSE [st EXCEPT !.term  = BDivSmall(FixMul(st.term, st.r, st.p), st.k + 1).q,
                  !.total = BAdd(st.total, st.term),
                  !.k     = st.k + 1]

RECURSIVE ExpReducedLoop(_, _)
ExpReducedLoop(st, n) ==
  IF n <= 0 THEN st
  ELSE IF n = 1 THEN ExpReducedStep(st)
  ELSE LET h == ExpReducedLoop(st, n \div 2)
       IN  IF h = h THEN ExpReducedLoop(h, n - (n \div 2)) ELSE h

\* exp(r) for a magnitude 0 <= r < ln 2: the Taylor series, summed until
\* the terms vanish.
ExpReduced(r, p) ==
  ExpReducedLoop([r |-> r, term |-> FixOne(p), total |-> <<>>, k |-> 0, p |-> p],
                 64).total

\* One of the two floats next to ex / 10^p * 2^k, for a magnitude ex of 1
\* to 2: the float above when pow_up, else the float below; the float
\* itself when the value is one to the precision of the evaluation (within
\* 10^-12 of the distance between floats).  Below 2^-1022 the floats are the
\* subnormal ones, multiples of 2^-1074; above the largest float, inf.
F64Beside(ex, k, p, pow_up) ==
  LET e == Max(k - 52, 0 - 1074)
      Float(m) == IF m = <<>> THEN F64Zero
                  ELSE IF m = Pow2(53)
                       THEN (IF e + 1 > 971 THEN F64Inf ELSE F64Num(FALSE, Pow2(52), e + 1))
                       ELSE F64Num(FALSE, m, e)
      Beside(dm, den) ==
        IF BLe(BMulPow10(dm.r, 12), den) THEN Float(dm.q)
        ELSE IF BLe(BMulPow10(BSub(den, dm.r), 12), den) \/ pow_up
             THEN Float(BAdd(dm.q, <<1>>))
             ELSE Float(dm.q)
      Ratio(num, den) == Beside(BDivMod(num, den), den)
  IN  Ratio(BMul(ex, Pow2(Max(k - e, 0))), BMul(FixOne(p), Pow2(Max(e - k, 0))))

\* x^y for floats x > 0 and y /= 0: with t = y * ln x and k = floor(t / ln 2),
\* a float next to 2^k * exp(t - k * ln 2): inf above the range of f64, and
\* below the least subnormal either that subnormal or zero.
PowPos(x, y, pow_up) ==
  LET Float(k, ex, p) ==
        IF k >= 1024 THEN F64Inf
        ELSE IF k < 0 - 1075
             THEN (IF pow_up THEN F64Num(FALSE, <<1>>, 0 - 1074) ELSE F64Zero)
        ELSE F64Beside(ex, k, p, pow_up)
      Reduced(k, r, p)  == Float(k, ExpReduced(r, p), p)
      Split(tneg, tmag, dm, kabs, p) ==
        Reduced(IF ~tneg \/ tmag = <<>> THEN kabs
                ELSE IF dm.r = <<>> THEN 0 - kabs ELSE (0 - kabs) - 1,
                IF ~tneg \/ dm.r = <<>> THEN dm.r ELSE BSub(Ln2(p), dm.r),
                p)
      Floor(tneg, tmag, dm, p) ==
        Split(tneg, tmag, dm, IF BLt(FromInt(2000), dm.q) THEN 2000 ELSE ToInt(dm.q), p)
      Exponent(tneg, tmag, p) == Floor(tneg, tmag, BDivMod(tmag, Ln2(p)), p)
      Scaled(tneg, prod, p) ==
        Exponent(tneg, IF y.e >= 0 THEN BMul(prod, Pow2(y.e))
                       ELSE BDivMod(prod, Pow2(0 - y.e)).q, p)
      Product(lx, p) == Scaled(lx.neg /= y.neg, BMul(lx.mag, y.m), p)
      Places(p) == Product(LnF64(x, p), p)
  IN  Places(FixDigits(y))

\* Whether the float y (a number) is an integer, and whether an odd one.
F64IsInteger(y) ==
  y.e >= 0 \/ (y.e > 0 - 53 /\ BDivMod(y.m, Pow2(0 - y.e)).r = <<>>)

F64IsOddInteger(y) ==
  /\ F64IsInteger(y)
  /\ y.e <= 0
  /\ BIsOdd(BDivMod(y.m, Pow2(0 - y.e)).q)

\* f64::powf(x, y).  1 for y = 0 and for x = 1, whatever the other is; else
\* NaN for a NaN; for an infinite y, 1 for x = -1 and else inf or 0 as |x|
\* grows or shrinks; for x = 0 or infinite, 0 or inf; NaN for x < 0 unless y
\* is an integer; and the sign of x for an odd integer y.
PowF(x, y, pow_up) ==
  LET F64One    == F64Num(FALSE, Pow2(52), 0 - 52)
      UnitMag   == x.cls = "num" /\ x.m = Pow2(52) /\ x.e = 0 - 52
      AboveOne  == x.cls = "inf" \/ (x.cls = "num" /\ x.e + BitLen(x.m) > 0)
      Signed(p) == IF x.neg /\ F64IsOddInteger(y) THEN [p EXCEPT !.neg = TRUE] ELSE p
  IN  IF y.cls = "zero" \/ (UnitMag /\ ~x.neg) THEN F64One
      ELSE IF x.cls = "nan" \/ y.cls = "nan" THEN F64NaN
      ELSE IF y.cls = "inf"
           THEN (IF UnitMag THEN F64One
                 ELSE IF AboveOne = ~y.neg THEN F64Inf ELSE F64Zero)
      ELSE IF x.cls = "zero" THEN Signed(IF y.neg THEN F64Inf ELSE F64Zero)
      ELSE IF x.cls = "inf" THEN Signed(IF y.neg THEN F64Zero ELSE F64Inf)
      ELSE IF x.neg /\ ~F64IsInteger(y) THEN F64NaN
      ELSE Signed(PowPos([x EXCEPT !.neg = FALSE], y, pow_up))

(***************************************************************************)
(* Decimal::from_f64: None for NaN and the infinities; else the binary     *)
(* significand is turned into a decimal mantissa by trading factors of 2   *)
(* for factors of 5 within 96 bits, cut to the 28 places of the type and   *)
(* to the digits that an f64 guarantees (a mantissa below 2^52), each cut  *)
(* digit rounding the rest up from 5, and stripped of trailing zeros.      *)
(* The result is a record: some (whether it is Some) and d (the decimal).  *)
(***************************************************************************)
DecNone == [some |-> FALSE, d |-> DecZero]

DecSome(d) == [some |-> TRUE, d |-> d]

\* The steps of Base2ToDecimal on its state: the mantissa bits, the decimal
\* exponent e10, and ok (no overflow so far).
\* exponent5 > 0: one factor of 2 is divided out per step, exactly when the
\* mantissa is even, else by multiplying by 5 (that is, by 10 / 2) when that
\* fits 96 bits, else with the loss of the low bit.
Base2Down(st) ==
  IF ~BIsOdd(st.bits)
  THEN [st EXCEPT !.bits = BDivSmall(st.bits, 2).q, !.e10 = st.e10 + 1]
  ELSE IF BLe(BMulSmall(st.bits, 5), MaxMantissa)
       THEN [st EXCEPT !.bits = BMulSmall(st.bits, 5)]
       ELSE [st EXCEPT !.bits = BDivSmall(st.bits, 2).q, !.e10 = st.e10 + 1]

RECURSIVE Base2DownLoop(_, _)
Base2DownLoop(st, n) ==
  IF n <= 0 THEN st
  ELSE IF n = 1 THEN Base2Down(st)
  ELSE LET h == Base2DownLoop(st, n \div 2)
       IN  IF h = h THEN Base2DownLoop(h, n - (n \div 2)) ELSE h

\* exponent5 < 0: a factor of 2 is multiplied in as 10 / 5.
Base2Up(st) ==
  IF BLt(st.bits, Pow2(95))
  THEN [st EXCEPT !.bits = BMulSmall(st.bits, 2), !.e10 = st.e10 - 1]
  ELSE [st EXCEPT !.bits = BDivSmall(st.bits, 5).q]

RECURSIVE Base2UpLoop(_, _)
Base2UpLoop(st, n) ==
  IF n <= 0 THEN st
  ELSE IF n = 1 THEN Base2Up(st)
  ELSE LET h == Base2UpLoop(st, n \div 2)
       IN  IF h = h THEN Base2UpLoop(h, n - (n \div 2)) ELSE h

\* exponent10 > 0: the mantissa takes the factors of 10, or overflows.
Base2Grow(st) ==
  IF st.e10 <= 0 \/ ~st.ok THEN st
  ELSE IF BLe(BMulSmall(st.bits, 10), MaxMantissa)
       THEN [st EXCEPT !.bits = BMulSmall(st.bits, 10), !.e10 = st.e10 - 1]
       ELSE [st EXCEPT !.ok = FALSE]

RECURSIVE Base2GrowLoop(_, _)
Base2GrowLoop(st, n) ==
  IF n <= 0 THEN st
  ELSE IF n = 1 THEN Base2Grow(st)
  ELSE LET h == Base2GrowLoop(st, n \div 2)
       IN  IF h = h THEN Base2GrowLoop(h, n - (n \div 2)) ELSE h

Base2CutDigit(st) ==
  LET Cut(dv) == [st EXCEPT !.bits = IF dv.r >= 5 THEN BAdd(dv.q, <<1>>) ELSE dv.q,
                            !.e10 = st.e10 + 1]
  IN  Cut(BDivSmall(st.bits, 10))

\* exponent10 < -MAX_PRECISION: digits beyond the scale are cut.
Base2Shrink(st) ==
  IF st.e10 >= 0 - MAX_PRECISION THEN st
  ELSE IF BDivSmall(st.bits, 10).q = <<>> THEN [st EXCEPT !.bits = <<>>, !.e10 = 0]
  ELSE Base2CutDigit(st)

RECURSIVE Base2ShrinkLoop(_, _)
Base2ShrinkLoop(st, n) ==
  IF n <= 0 THEN st
  ELSE IF n = 1 THEN Base2Shrink(st)
  ELSE LET h == Base2ShrinkLoop(st, n \div 2)
       IN  IF h = h THEN Base2ShrinkLoop(h, n - (n \div 2)) ELSE h

\* The digits beyond the precision of an f64 are cut.
Base2Excess(st) ==
  IF st.e10 < 0 /\ BLe(Pow2(52), st.bits) THEN Base2CutDigit(st) ELSE st

RECURSIVE Base2ExcessLoop(_, _)
Base2ExcessLoop(st, n) ==
  IF n <= 0 THEN st
  ELSE IF n = 1 THEN Base2Excess(st)
  ELSE LET h == Base2ExcessLoop(st, n \div 2)
       IN  IF h = h THEN Base2ExcessLoop(h, n - (n \div 2)) ELSE h

\* Trailing zeros are dropped.
Base2Strip(st) ==
  LET Drop(dv) == IF st.e10 < 0 /\ dv.r = 0
                  THEN [st EXCEPT !.bits = dv.q, !.e10 = st.e10 + 1] ELSE st
  IN  Drop(BDivSmall(st.bits, 10))

RECURSIVE Base2StripLoop(_, _)
Base2StripLoop(st, n) ==
  IF n <= 0 THEN st
  ELSE IF n = 1 THEN Base2Strip(st)
  ELSE LET h == Base2StripLoop(st, n \div 2)
       IN  IF h = h THEN Base2StripLoop(h, n - (n \div 2)) ELSE h

Base2ToDecimal(neg, m, exponent2) ==
  LET Made(st)     == DecSome(Dec(neg, st.bits, 0 - st.e10))
      Stripped(st) == Made(Base2StripLoop(st, 0 - st.e10))
      Precise(st)  == Stripped(Base2ExcessLoop(st, 0 - st.e10))
      Scaled(st)   == IF st.ok
                      THEN Precise(Base2ShrinkLoop(st, (0 - MAX_PRECISION) - st.e10))
                      ELSE DecNone
      Traded(st)   == Scaled(Base2GrowLoop(st, st.e10))
  IN  Traded(Base2UpLoop(
                     Base2DownLoop([bits |-> m, e10 |-> exponent2, ok |-> TRUE],
                             0 - exponent2),
                     exponent2))

FromF64(f) ==
  IF f.cls = "nan" \/ f.cls = "inf" THEN DecNone
  ELSE IF f.cls = "zero" THEN DecSome(DecZero)
  ELSE Base2ToDecimal(f.neg, f.m, f.e)

(***************************************************************************)
(* The library: src/src/lib.rs.  An anyhow::Result<T> is a record: kind    *)
(* ("Ok", "Err", or "Panic" when the call did not return but unwound),     *)
(* val (the value of an Ok) and msg (the error or panic message).          *)
(***************************************************************************)
Ok(val) == [kind |-> "Ok", val |-> val, msg |-> ""]

Err(msg) == [kind |-> "Err", val |-> DecZero, msg |-> msg]

Unwound(msg) == [kind |-> "Panic", val |-> DecZero, msg |-> msg]

\* The value an expression of Decimal operators leaves: Ok of it, or the
\* panic that one of the operators raised.
OkOrUnwound(d) == IF IsPanic(d) THEN Unwound(d.panic) ELSE Ok(d)

PaymentFrequency ==
  {"Monthly", "SemiMonthly", "BiWeekly", "AcceleratedBiWeekly", "Weekly",
   "AcceleratedWeekly"}

\* Decimal::from_u64, for a machine-size n: Some for every u64.
DecFromU64(n) == DecLit(FALSE, n, 0)

\* fn fractional_exponent(base, exponent): base^exponent through f64.
fractional_exponent(base, exponent, pow_up) ==
  LET Converted(p) == IF p.some THEN Ok(p.d)
                      ELSE Err("could not convert from f64 to Decimal")
  IN  IF IsPanic(base) THEN Unwound(base.panic)
      ELSE IF IsPanic(exponent) THEN Unwound(exponent.panic)
      ELSE Converted(FromF64(PowF(ToF64(base), ToF64(exponent), pow_up)))

\* convert_compounding_basis with the exponent inverted, n2/n1: the yields
\* of C6 tell it from the function.
convert_compounding_basis_inverted(rate, compounding_frequency1, compounding_frequency2, pow_up) ==
  LET n1 == DecFromU64(compounding_frequency1)
      n2 == DecFromU64(compounding_frequency2)
      Rate(fe) == IF fe.kind /= "Ok" THEN fe
                  ELSE OkOrUnwound(DecMul(DecSub(fe.val, DecLit(FALSE, 1, 0)), n2))
  IN  Rate(fractional_exponent(DecAdd(DecLit(FALSE, 1, 0), DecDiv(rate, n1)),
                               DecDiv(n2, n1), pow_up))

\* convert_compounding_basis with the result scaled by n1 instead of n2: the
\* round trip of C7 tells it from the function.
convert_compounding_basis_scaled_by_n1(rate, compounding_frequency1, compounding_frequency2, pow_up) ==
  LET n1 == DecFromU64(compounding_frequency1)
      n2 == DecFromU64(compounding_frequency2)
      Rate(fe) == IF fe.kind /= "Ok" THEN fe
                  ELSE OkOrUnwound(DecMul(DecSub(fe.val, DecLit(FALSE, 1, 0)), n1))
  IN  Rate(fractional_exponent(DecAdd(DecLit(FALSE, 1, 0), DecDiv(rate, n1)),
                               DecDiv(n1, n2), pow_up))

\* fn convert_compounding_basis(rate, compounding_frequency1,
\* compounding_frequency2): r2 = ((1 + r1/n1)^(n1/n2) - 1) * n2.
convert_compounding_basis(rate, compounding_frequency1, compounding_frequency2, pow_up) ==
  LET n1 == DecFromU64(compounding_frequency1)
      n2 == DecFromU64(compounding_frequency2)
      Rate(fe) == IF fe.kind /= "Ok" THEN fe
                  ELSE OkOrUnwound(DecMul(DecSub(fe.val, DecLit(FALSE, 1, 0)), n2))
  IN  Rate(fractional_exponent(DecAdd(DecLit(FALSE, 1, 0), DecDiv(rate, n1)),
                               DecDiv(n1, n2), pow_up))

\* The error value that the range check of CanadianMortage::new builds for
\* an interest rate outside 0..100: the anyhow! expression is a statement of
\* its own, so the value is dropped and the constructor goes on.
RangeError(interest_rate) ==
  IF DecLt(interest_rate, DecLit(FALSE, 0, 1)) \/ DecGt(interest_rate, DecLit(FALSE, 1000, 1))
  THEN Err("interest rate is the annual interest rate be between 0% and 100%")
  ELSE Ok(DecZero)

NoModel ==
  [built |-> FALSE, principal |-> DecZero, interest_rate |-> DecZero,
   amortization_period |-> <<>>, payment_frequency |-> "Monthly"]

\* CanadianMortage::new keeping the rate as a fraction but not converting
\* it to monthly compounding: C10 tells it from the constructor.
CanadianMortage_new_unconverted(mortgage_amount, interest_rate, amortization_period, payment_frequency, pow_up) ==
  [res   |-> Ok(DecZero),
   model |-> [built               |-> TRUE,
              principal           |-> mortgage_amount,
              interest_rate       |-> DecDiv(interest_rate, DecLit(FALSE, 100, 0)),
              amortization_period |-> amortization_period,
              payment_frequency   |-> payment_frequency]]

\* CanadianMortage::new: a record with res (the kind and message of the
\* Result) and model (the struct of an Ok).  The amortization period, a
\* u64, is kept as limbs.
CanadianMortage_new(mortgage_amount, interest_rate, amortization_period, payment_frequency, pow_up) ==
  LET dropped == RangeError(interest_rate)
      Self(monthly) ==
        IF monthly.kind /= "Ok" THEN [res |-> monthly, model |-> NoModel]
        ELSE [res   |-> Ok(DecZero),
              model |-> [built               |-> TRUE,
                         principal           |-> mortgage_amount,
                         interest_rate       |-> monthly.val,
                         amortization_period |-> amortization_period,
                         payment_frequency   |-> payment_frequency]]
  IN  Self(convert_compounding_basis(DecDiv(interest_rate, DecLit(FALSE, 100, 0)), 2, 12,
                                     pow_up))

\* a * c on u64 (c machine-size): the product when it is below 2^64; else
\* a panic in a build with overflow checks (the debug profile) and the
\* product modulo 2^64 in a build without (the release profile).
U64Mul(a, c, overflow_checks) ==
  LET Checked(prod) ==
        IF BLt(prod, Pow2(64)) THEN [panic |-> "", val |-> prod]
        ELSE IF overflow_checks
             THEN [panic |-> "attempt to multiply with overflow", val |-> <<>>]
             ELSE [panic |-> "", val |-> BDivMod(prod, Pow2(64)).r]
  IN  Checked(BMulSmall(a, c))

\* The match with the bi-weekly payment taken as half the monthly one: C3
\* tells it from the match.
ScaleByFrequency_biweekly_halved(monthly_payment, payment_frequency) ==
  IF payment_frequency \in {"SemiMonthly", "BiWeekly", "AcceleratedBiWeekly"}
  THEN DecDiv(monthly_payment, DecLit(FALSE, 2, 0))
  ELSE IF payment_frequency = "Weekly"
  THEN DecDiv(DecMul(monthly_payment, DecLit(FALSE, 12, 0)), DecLit(FALSE, 52, 0))
  ELSE IF payment_frequency = "AcceleratedWeekly"
  THEN DecDiv(monthly_payment, DecLit(FALSE, 4, 0))
  ELSE monthly_payment

\* The match with the accelerated weekly payment taken by the 12/52 path:
\* the annual totals of C9 tell it from the match.
ScaleByFrequency_accelerated_by_52(monthly_payment, payment_frequency) ==
  IF payment_frequency \in {"SemiMonthly", "AcceleratedBiWeekly"}
  THEN DecDiv(monthly_payment, DecLit(FALSE, 2, 0))
  ELSE IF payment_frequency = "BiWeekly"
  THEN DecDiv(DecMul(monthly_payment, DecLit(FALSE, 12, 0)), DecLit(FALSE, 26, 0))
  ELSE IF payment_frequency \in {"Weekly", "AcceleratedWeekly"}
  THEN DecDiv(DecMul(monthly_payment, DecLit(FALSE, 12, 0)), DecLit(FALSE, 52, 0))
  ELSE monthly_payment

\* The match of CanadianMortage::payment on the payment frequency.
ScaleByFrequency(monthly_payment, payment_frequency) ==
  CASE payment_frequency = "Monthly" -> monthly_payment
    [] payment_frequency = "SemiMonthly" ->
         DecDiv(monthly_payment, DecLit(FALSE, 2, 0))
    [] payment_frequency = "BiWeekly" ->
         DecDiv(DecMul(monthly_payment, DecLit(FALSE, 12, 0)), DecLit(FALSE, 26, 0))
    [] payment_frequency = "AcceleratedBiWeekly" ->
         DecDiv(monthly_payment, DecLit(FALSE, 2, 0))
    [] payment_frequency = "Weekly" ->
         DecDiv(DecMul(monthly_payment, DecLit(FALSE, 12, 0)), DecLit(FALSE, 52, 0))
    [] payment_frequency = "AcceleratedWeekly" ->
         DecDiv(monthly_payment, DecLit(FALSE, 4, 0))

\* The local monthly_payment of CanadianMortage::payment: the amortization
\* formula on the stored fields (a Decimal, or the panic of the evaluation).
MonthlyPayment(self, overflow_checks) ==
  LET Formula(n) ==
        IF n.panic /= "" THEN Panic(n.panic)
        ELSE mortgage_payment(self.principal,
                              DecDiv(self.interest_rate, DecLit(FALSE, 12, 0)),
                              ToInt(n.val))
  IN  Formula(U64Mul(self.amortization_period, 12, overflow_checks))

\* CanadianMortage::payment(&self).
CanadianMortage_payment(self, overflow_checks) ==
  OkOrUnwound(ScaleByFrequency(MonthlyPayment(self, overflow_checks),
                               self.payment_frequency))

(***************************************************************************)
(* Three uses of the library.  Spec is the life of one mortgage: a caller  *)
(* constructs it from its arguments and then asks it for its payment, a    *)
(* bounded number of times.  SpecConv is a caller of                       *)
(* convert_compounding_basis within the crate, as its tests are, who       *)
(* converts a rate to another compounding frequency and back.  SpecPay is  *)
(* a caller of mortgage_payment within the crate.  The variables of the    *)
(* uses a specification does not make stay idle.                           *)
(***************************************************************************)
VARIABLES
  pc,               \* "start", "built" or "failed" (new returned Ok or Err),
                    \* "panicked" (a call unwound); "idle" when unused
  args,             \* the arguments of CanadianMortage::new
  overflow_checks,  \* whether the build checks integer overflow
  mortgage,         \* the CanadianMortage struct that new returned
  constructed,      \* the Result of new, without the struct
  result,           \* the Result of the last call of payment()
  calls,            \* the number of calls of payment() so far
  conv,             \* a conversion of a rate and back (see Convert)
  pay               \* an evaluation of the amortization formula (see Amortize)

vars == <<pc, args, overflow_checks, mortgage, constructed, result, calls, conv, pay>>

\* Calls of payment() on one mortgage.
MaxCalls == 2

NoResult == [kind |-> "None", val |-> DecZero, msg |-> ""]

NoArgs ==
  [mortgage_amount |-> DecZero, interest_rate |-> DecZero,
   amortization_period |-> <<>>, payment_frequency |-> "Monthly"]

ConvIdle == [pc |-> "idle", rate |-> DecZero, n1 |-> 1, n2 |-> 1,
             r2 |-> NoResult, r3 |-> NoResult]

PayIdle == [pc |-> "idle", p |-> DecZero, r |-> DecZero, n |-> 0, a |-> NoResult]

\* The annual rates, in percent: -0.01, 0, 6 and 100.01.
InputRates ==
  {DecLit(TRUE, 1, 2), DecLit(FALSE, 0, 0), DecLit(FALSE, 6, 0), DecLit(FALSE, 10001, 2)}

\* The least number of years whose months exceed a u64: 2^64 / 12 + 1.
OverflowYears == BAdd(BDivSmall(Pow2(64), 12).q, <<1>>)

Args(a, r, y, f) ==
  [mortgage_amount |-> a, interest_rate |-> r, amortization_period |-> y,
   payment_frequency |-> f]

\* A principal of 100000.0 at each rate, over 1 year, at each frequency.
GridInputs ==
  {Args(DecLit(FALSE, 1000000, 1), r, FromInt(1), f) :
     r \in InputRates, f \in PaymentFrequency}

\* The mortgage of 430000.0 at 4.59% over 25 years of the crate's tests, at
\* three frequencies; a period of 0 years; a negative
\* principal; a rate of -300%; the largest Decimal as the principal at 100%
\* over 1 year and over 4 years; a period of OverflowYears; and a rate of
\* 8.763%, whose monthly rate depends on the float that powf returns.
CornerInputs ==
  {Args(DecLit(FALSE, 4300000, 1), DecLit(FALSE, 459, 2), FromInt(25), f) :
     f \in {"AcceleratedWeekly", "AcceleratedBiWeekly", "Monthly"}}
  \cup {Args(DecLit(FALSE, 1000000, 1), DecLit(FALSE, 6, 0), FromInt(0), "Monthly"),
        Args(DecLit(TRUE, 1000000, 1), DecLit(FALSE, 6, 0), FromInt(1), "Weekly"),
        Args(DecLit(FALSE, 1000000, 1), DecLit(TRUE, 300, 0), FromInt(1), "Monthly"),
        Args(Dec(FALSE, MaxMantissa, 0), DecLit(FALSE, 100, 0), FromInt(4), "Monthly"),
        Args(Dec(FALSE, MaxMantissa, 0), DecLit(FALSE, 100, 0), FromInt(1), "Monthly"),
        Args(Dec(FALSE, MaxMantissa, 0), DecLit(FALSE, 100, 0), FromInt(1), "BiWeekly"),
        Args(DecLit(FALSE, 1000000, 1), DecLit(FALSE, 6, 0), OverflowYears, "Monthly"),
        Args(DecLit(FALSE, 1000000, 1), DecLit(FALSE, 8763, 3), FromInt(1), "Monthly"),
        Args(DecLit(FALSE, 1000000, 1), DecLit(FALSE, 8763, 3), FromInt(1), "Weekly")}

Inputs == GridInputs \cup CornerInputs

Init ==
  /\ pc = "start"
  /\ args \in Inputs
  /\ overflow_checks \in BOOLEAN
  /\ mortgage = NoModel
  /\ constructed = NoResult
  /\ result = NoResult
  /\ calls = 0
  /\ conv = ConvIdle
  /\ pay = PayIdle

\* The caller evaluates CanadianMortage::new(args); powf returns either of
\* the floats next to the power.
New ==
  LET Return(made) ==
        /\ constructed' = made.res
        /\ mortgage' = made.model
        /\ pc' = IF made.res.kind = "Ok" THEN "built" ELSE "failed"
  IN  /\ pc = "start"
      /\ \E pow_up \in BOOLEAN :
           Return(CanadianMortage_new(args.mortgage_amount, args.interest_rate,
                                      args.amortization_period, args.payment_frequency,
                                      pow_up))
      /\ UNCHANGED <<args, overflow_checks, result, calls, conv, pay>>

\* The caller evaluates mortgage.payment(); a panic unwinds the caller.
Payment ==
  LET Return(paid) ==
        /\ result' = paid
        /\ pc' = IF paid.kind = "Panic" THEN "panicked" ELSE pc
  IN  /\ pc = "built"
      /\ calls < MaxCalls
      /\ Return(CanadianMortage_payment(mortgage, overflow_checks))
      /\ calls' = calls + 1
      /\ UNCHANGED <<args, overflow_checks, mortgage, constructed, conv, pay>>

Next == New \/ Payment

Spec == Init /\ [][Next]_vars

\* The rates 0, 0.01, 0.0459, 0.06, 0.25 and 1 (0% to 100%), each from and
\* to 1, 2 and 12 compoundings a year; and -3 from 2 to 12, which has no
\* equivalent rate (the sixth root of -0.5).
ConvInputs ==
  {[rate |-> r, n1 |-> a, n2 |-> b] :
     r \in {DecLit(FALSE, 0, 0), DecLit(FALSE, 1, 2), DecLit(FALSE, 459, 4),
            DecLit(FALSE, 6, 2), DecLit(FALSE, 25, 2), DecLit(FALSE, 1, 0)},
     a \in {1, 2, 12}, b \in {1, 2, 12}}
  \cup {[rate |-> DecLit(TRUE, 3, 0), n1 |-> 2, n2 |-> 12]}

InitConv ==
  /\ pc = "idle"
  /\ args = NoArgs
  /\ overflow_checks = FALSE
  /\ mortgage = NoModel
  /\ constructed = NoResult
  /\ result = NoResult
  /\ calls = 0
  /\ \E i \in ConvInputs :
       conv = [pc |-> "start", rate |-> i.rate, n1 |-> i.n1, n2 |-> i.n2,
               r2 |-> NoResult, r3 |-> NoResult]
  /\ pay = PayIdle

\* The caller evaluates convert_compounding_basis(rate, n1, n2).
Convert ==
  LET Return(r2) ==
        conv' = [conv EXCEPT !.r2 = r2,
                             !.pc = IF r2.kind = "Ok" THEN "converted" ELSE "failed"]
  IN  /\ conv.pc = "start"
      /\ \E pow_up \in BOOLEAN :
           Return(convert_compounding_basis(conv.rate, conv.n1, conv.n2, pow_up))
      /\ UNCHANGED <<pc, args, overflow_checks, mortgage, constructed, result, calls, pay>>

\* The caller converts the rate it got back to the first frequency:
\* convert_compounding_basis(r2, n2, n1).
ConvertBack ==
  LET Return(r3) == conv' = [conv EXCEPT !.r3 = r3, !.pc = "back"]
  IN  /\ conv.pc = "converted"
      /\ \E pow_up \in BOOLEAN :
           Return(convert_compounding_basis(conv.r2.val, conv.n2, conv.n1, pow_up))
      /\ UNCHANGED <<pc, args, overflow_checks, mortgage, constructed, result, calls, pay>>

NextConv == Convert \/ ConvertBack

SpecConv == InitConv /\ [][NextConv]_vars

\* Principals of 100000, 200000 and 10000000.0 at the periodic rates 0.0001,
\* 0.005, 0.00875 and 1 over 1, 2, 3, 12 and 24 periods; the two loans of
\* the crate's test; a loan over no period; and one whose power overflows.
PayInputs ==
  {[p |-> p, r |-> r, n |-> n] :
     p \in {DecLit(FALSE, 100000, 0), DecLit(FALSE, 200000, 0), DecLit(FALSE, 100000000, 1)},
     r \in {DecLit(FALSE, 1, 4), DecLit(FALSE, 5, 3), DecLit(FALSE, 875, 5), DecLit(FALSE, 1, 0)},
     n \in {1, 2, 3, 12, 24}}
  \cup {[p |-> DecLit(FALSE, 100000000, 1),
         r |-> DecDiv(DecLit(FALSE, 105, 3), DecLit(FALSE, 12, 0)), n |-> 120],
        [p |-> DecLit(FALSE, 200000, 0),
         r |-> DecDiv(DecLit(FALSE, 65, 3), DecLit(FALSE, 12, 0)), n |-> 360],
        [p |-> DecLit(FALSE, 100000, 0), r |-> DecLit(FALSE, 5, 3), n |-> 0],
        [p |-> DecLit(FALSE, 100000, 0), r |-> DecLit(FALSE, 1, 0), n |-> 120]}

InitPay ==
  /\ pc = "idle"
  /\ args = NoArgs
  /\ overflow_checks = FALSE
  /\ mortgage = NoModel
  /\ constructed = NoResult
  /\ result = NoResult
  /\ calls = 0
  /\ conv = ConvIdle
  /\ \E i \in PayInputs :
       pay = [pc |-> "start", p |-> i.p, r |-> i.r, n |-> i.n, a |-> NoResult]

\* The caller evaluates mortgage_payment(p, r, n).
Amortize ==
  LET Return(a) == pay' = [pay EXCEPT !.a = a, !.pc = "done"]
  IN  /\ pay.pc = "start"
      /\ Return(OkOrUnwound(mortgage_payment(pay.p, pay.r, pay.n)))
      /\ UNCHANGED <<pc, args, overflow_checks, mortgage, constructed, result, calls, conv>>

NextPay == Amortize

SpecPay == InitPay /\ [][NextPay]_vars

(***************************************************************************)
(* The properties of the library, by the number of the claim they settle.  *)
(* Those over a mortgage are checked under Spec, those over a conversion   *)
(* under SpecConv and the one over the formula under SpecPay.              *)
(***************************************************************************)

\* The arguments ask for an annual rate below 0% or above 100%.
RateOutOfRange ==
  \/ DecLt(args.interest_rate, DecLit(FALSE, 0, 0))
  \/ DecGt(args.interest_rate, DecLit(FALSE, 100, 0))

\* C1: CanadianMortage::new returns an Err, and no model, for every annual
\* rate below 0 or above 100 (-0.01 and 100.01 among them), whatever the
\* other arguments are.
C1_RateOutOfRangeIsRejected ==
  (pc /= "start" /\ RateOutOfRange) => (constructed.kind = "Err" /\ ~mortgage.built)

\* C2: CanadianMortage::new returns an Err for every negative principal and
\* for an amortization period of 0, so that no such model reaches payment().
C2_PrincipalAndPeriodAreValidated ==
  (pc /= "start" /\ (args.mortgage_amount.neg \/ args.amortization_period = <<>>))
    => (constructed.kind = "Err" /\ ~mortgage.built /\ calls = 0)

\* The frequency table of the claim C3, on a monthly payment M.
FrequencyTable(M, f) ==
  CASE f = "Monthly"             -> M
    [] f = "SemiMonthly"         -> DecDiv(M, DecLit(FALSE, 2, 0))
    [] f = "BiWeekly"            -> DecDiv(DecMul(M, DecLit(FALSE, 12, 0)), DecLit(FALSE, 26, 0))
    [] f = "AcceleratedBiWeekly" -> DecDiv(M, DecLit(FALSE, 2, 0))
    [] f = "Weekly"              -> DecDiv(DecMul(M, DecLit(FALSE, 12, 0)), DecLit(FALSE, 52, 0))
    [] f = "AcceleratedWeekly"   -> DecDiv(M, DecLit(FALSE, 4, 0))

\* C3: what payment() returns is M scaled by the frequency of the model,
\* where M = mortgage_payment(principal, interest_rate / 12,
\* amortization_period * 12): Monthly M, SemiMonthly M/2, BiWeekly M*12/26,
\* AcceleratedBiWeekly M/2, Weekly M*12/52, AcceleratedWeekly M/4; when the
\* evaluation of M unwinds, so does payment().
C3_PaymentIsMonthlyScaledByFrequency ==
  calls >= 1 =>
    result = OkOrUnwound(FrequencyTable(MonthlyPayment(mortgage, overflow_checks),
                                        mortgage.payment_frequency))

\* A bi-weekly payment has been returned: M * 12 / 26, not M / 2.
C3_Witness ==
  /\ calls >= 1
  /\ result.kind = "Ok"
  /\ mortgage.payment_frequency = "BiWeekly"
  /\ ~DecEq(result.val, DecDiv(MonthlyPayment(mortgage, overflow_checks), DecLit(FALSE, 2, 0)))

\* The arguments are those the constructor's contract allows: a principal
\* that is not negative, a rate from 0% to 100%, a period of a year or more.
ValidArgs ==
  /\ ~args.mortgage_amount.neg
  /\ ~RateOutOfRange
  /\ args.amortization_period /= <<>>

\* C4: for every model built from valid arguments, the rate 0% among them,
\* payment() returns an amount or an error value: it never unwinds.
C4_PaymentNeverAborts ==
  (ValidArgs /\ calls >= 1) => result.kind \in {"Ok", "Err"}

\* The panics of an arithmetic overflow: of Decimal's operators and of the
\* u64 multiplication.
OverflowPanics ==
  {"Multiplication overflowed", "Addition overflowed", "Subtraction overflowed",
   "Division overflowed", "attempt to multiply with overflow"}

\* The months of the period are more than a u64 holds.
MonthsOverflow == ~BLt(BMulSmall(mortgage.amortization_period, 12), Pow2(64))

\* C5: an intermediate value of the formula that exceeds the range of its
\* type (the power, the product, the count of months) makes payment()
\* return an error value: never a panic, never an amount computed from a
\* wrapped count.
C5_OverflowIsAnErrorValue ==
  /\ ~(result.kind = "Panic" /\ result.msg \in OverflowPanics)
  /\ (calls >= 1 /\ MonthsOverflow) => result.kind = "Err"

\* a^n on limbs.
RECURSIVE BPow(_, _)
BPow(a, n) == IF n = 0 THEN <<1>> ELSE BMul(a, BPow(a, n - 1))

\* The annual effective yield (1 + r/n)^n of the rate r >= 0 compounded n
\* times a year, as an exact fraction num / den.
YieldOf(r, n) ==
  [num |-> BPow(BAdd(BMulSmall(Pow10(r.s), n), r.m), n),
   den |-> BPow(BMulSmall(Pow10(r.s), n), n)]

YieldsEqual(x, y) == BMul(x.num, y.den) = BMul(y.num, x.den)

\* |x - y| <= 10^-k.
YieldsWithin(x, y, k) ==
  LET Close(a, b) ==
        BLe(BMulPow10(IF BLe(a, b) THEN BSub(b, a) ELSE BSub(a, b), k),
            BMul(x.den, y.den))
  IN  Close(BMul(x.num, y.den), BMul(y.num, x.den))

\* A rate from 0% to 100% has been converted.
Converted ==
  /\ conv.pc \in {"converted", "back"}
  /\ ~conv.rate.neg
  /\ DecCmp(conv.rate, DecLit(FALSE, 1, 0)) <= 0

\* C6, as stated: the rate that convert_compounding_basis returns gives the
\* same annual effective yield: (1 + r2/n2)^n2 = (1 + r1/n1)^n1.
C6_YieldsAreIdentical ==
  Converted => YieldsEqual(YieldOf(conv.r2.val, conv.n2), YieldOf(conv.rate, conv.n1))

\* C6, as it holds: for a rate from 0% to 100% and frequencies up to 12 the
\* rate that convert_compounding_basis returns is not negative and gives the
\* same annual effective yield to within 10^-12 (the power is taken in f64);
\* and convert_compounding_basis(0.06, 2, 1) is 0.0609.
C6_YieldsAgree ==
  Converted =>
    /\ conv.r2.kind = "Ok"
    /\ ~conv.r2.val.neg
    /\ YieldsWithin(YieldOf(conv.r2.val, conv.n2), YieldOf(conv.rate, conv.n1), 12)
    /\ (DecEq(conv.rate, DecLit(FALSE, 6, 2)) /\ conv.n1 = 2 /\ conv.n2 = 1)
         => DecEq(conv.r2.val, DecLit(FALSE, 609, 4))

\* 6% compounded twice a year has been converted to monthly compounding, and
\* the yields differ.
C6_Witness ==
  /\ conv.pc = "converted"
  /\ DecEq(conv.rate, DecLit(FALSE, 6, 2)) /\ conv.n1 = 2 /\ conv.n2 = 12
  /\ ~YieldsEqual(YieldOf(conv.r2.val, conv.n2), YieldOf(conv.rate, conv.n1))

\* C7: a rate from 0% to 100% converted from n1 to n2 compoundings and back
\* is the rate again, to within 10^-12.
C7_RoundTrip ==
  (conv.pc = "back" /\ ~conv.rate.neg) =>
    /\ conv.r3.kind = "Ok"
    /\ DecCmp(DecAbs(DecSub(conv.r3.val, conv.rate)), DecLit(FALSE, 1, 12)) <= 0

\* A rate has gone to another frequency and back, and come back changed in
\* its last places.
C7_Witness ==
  /\ conv.pc = "back"
  /\ conv.n1 /= conv.n2
  /\ conv.r3.kind = "Ok"
  /\ ~DecIsZero(conv.rate)
  /\ ~DecEq(conv.r3.val, conv.rate)

\* x^n by multiplications of Decimals, n >= 0.
RECURSIVE IntPow(_, _)
IntPow(x, n) ==
  IF n = 0 THEN DecLit(FALSE, 1, 0)
  ELSE IF n = 1 THEN x
  ELSE DecMul(IntPow(x, n \div 2), IntPow(x, n - (n \div 2)))

\* |a - b| <= |b| / 10^k.
WithinRel(a, b, k) ==
  /\ ~IsPanic(a)
  /\ ~IsPanic(b)
  /\ DecCmp(DecAbs(DecSub(a, b)), DecMul(DecAbs(b), DecLit(FALSE, 1, k))) <= 0

\* p * r * (1 + r)^n / ((1 + r)^n - 1).
GrowthForm(p, r, n) ==
  DecDiv(DecMul(DecMul(p, r), IntPow(DecAdd(DecLit(FALSE, 1, 0), r), n)),
         DecSub(IntPow(DecAdd(DecLit(FALSE, 1, 0), r), n), DecLit(FALSE, 1, 0)))

\* p * r / (1 - (1 + r)^-n).
DiscountForm(p, r, n) ==
  DecDiv(DecMul(p, r),
         DecSub(DecLit(FALSE, 1, 0),
                DecDiv(DecLit(FALSE, 1, 0), IntPow(DecAdd(DecLit(FALSE, 1, 0), r), n))))

\* C8: the amount that mortgage_payment(p, r, n) returns, r > 0, is
\* p * r * (1 + r)^n / ((1 + r)^n - 1) with the power an integer power of
\* Decimals, and is p * r / (1 - (1 + r)^-n), each to within one part in
\* 10^18.
C8_FormulaIdentity ==
  (pay.pc = "done" /\ pay.a.kind = "Ok" /\ DecGt(pay.r, DecZero)) =>
    /\ WithinRel(pay.a.val, GrowthForm(pay.p, pay.r, pay.n), 18)
    /\ WithinRel(pay.a.val, DiscountForm(pay.p, pay.r, pay.n), 18)

\* The 30-year loan of the crate's test has been evaluated.
C8_Witness ==
  /\ pay.pc = "done"
  /\ pay.a.kind = "Ok"
  /\ pay.n = 360
  /\ DecGt(pay.r, DecZero)

\* The payments a year at a frequency, and the monthly payments that a year
\* of them comes to.
PaymentsPerYear(f) ==
  CASE f \in {"BiWeekly", "AcceleratedBiWeekly"} -> 26
    [] f \in {"Weekly", "AcceleratedWeekly"}     -> 52
    [] f = "SemiMonthly"                         -> 24
    [] f = "Monthly"                             -> 12

MonthsPaidPerYear(f) ==
  IF f \in {"AcceleratedBiWeekly", "AcceleratedWeekly"} THEN 13 ELSE 12

\* k * P = t * M, exactly.
SameTotal(P, k, M, t) ==
  /\ P.neg = M.neg
  /\ BMulPow10(BMulSmall(P.m, k), M.s) = BMulPow10(BMulSmall(M.m, t), P.s)

\* |k * P - t * M| <= |t * M| / 10^d.
TotalsWithin(P, k, M, t, d) ==
  LET Close(a, b) ==
        BLe(BMulPow10(IF BLe(a, b) THEN BSub(b, a) ELSE BSub(a, b), d), b)
  IN  /\ P.neg = M.neg
      /\ Close(BMulPow10(BMulSmall(P.m, k), M.s), BMulPow10(BMulSmall(M.m, t), P.s))

\* What payment() returns for the same mortgage paid monthly.
PaidMonthly ==
  CanadianMortage_payment([mortgage EXCEPT !.payment_frequency = "Monthly"],
                          overflow_checks)

\* payment() has returned an amount at one of the four frequencies of C9.
PaidByWeeks ==
  /\ calls >= 1
  /\ result.kind = "Ok"
  /\ mortgage.payment_frequency \in
       {"BiWeekly", "Weekly", "AcceleratedBiWeekly", "AcceleratedWeekly"}

\* C9, as stated: 26 bi-weekly payments and 52 weekly payments are 12
\* monthly payments, 26 accelerated bi-weekly and 52 accelerated weekly
\* payments are 13 monthly payments, exactly.
C9_AnnualTotalsAreEqual ==
  PaidByWeeks =>
    SameTotal(result.val, PaymentsPerYear(mortgage.payment_frequency),
              PaidMonthly.val, MonthsPaidPerYear(mortgage.payment_frequency))

\* The amount returned is 1 or more in magnitude, so that it has 28 or more
\* significant digits.
AtLeastOne == DecCmp(DecAbs(result.val), DecLit(FALSE, 1, 0)) >= 0

\* C9, as it holds: the amounts of 1 or more that payment() returns come to
\* these annual totals to within one part in 10^27, the rounding of a
\* Decimal.
C9_AnnualTotalsAgree ==
  (PaidByWeeks /\ AtLeastOne) =>
    /\ PaidMonthly.kind = "Ok"
    /\ TotalsWithin(result.val, PaymentsPerYear(mortgage.payment_frequency),
                    PaidMonthly.val, MonthsPaidPerYear(mortgage.payment_frequency), 27)

\* An accelerated weekly payment has been returned, and 52 of them are not
\* exactly 13 monthly payments.
C9_Witness ==
  /\ PaidByWeeks
  /\ AtLeastOne
  /\ mortgage.payment_frequency = "AcceleratedWeekly"
  /\ ~SameTotal(result.val, 52, PaidMonthly.val, 13)

\* C10: the fields of a constructed mortgage are those new was given, with
\* interest_rate = convert_compounding_basis(annual rate / 100, 2, 12) and
\* not the rate given (for a rate other than 0); no call changes them; and a
\* repeated call of payment() returns what the call before returned.
C10_FieldsAreFixed ==
  [][/\ (pc = "start" /\ pc' = "built") =>
          /\ mortgage'.principal = args.mortgage_amount
          /\ mortgage'.amortization_period = args.amortization_period
          /\ mortgage'.payment_frequency = args.payment_frequency
          /\ \E pow_up \in BOOLEAN :
               mortgage'.interest_rate =
                 convert_compounding_basis(
                   DecDiv(args.interest_rate, DecLit(FALSE, 100, 0)), 2, 12, pow_up).val
          /\ DecIsZero(args.interest_rate)
               \/ /\ ~DecEq(mortgage'.interest_rate, args.interest_rate)
                  /\ ~DecEq(mortgage'.interest_rate,
                            DecDiv(args.interest_rate, DecLit(FALSE, 100, 0)))
     /\ pc = "built" => mortgage' = mortgage
     /\ (pc = "built" /\ calls >= 1 /\ calls' = calls + 1) => result' = result
    ]_vars

\* payment() has been called again on a mortgage and has returned.
C10_Witness ==
  /\ pc = "built"
  /\ calls >= 2
  /\ result.kind = "Ok"
  /\ ~DecEq(mortgage.interest_rate, DecDiv(args.interest_rate, DecLit(FALSE, 100, 0)))

====
